---- MODULE Spec2Model ----
(***************************************************************************)
(* Model of the municipality graph builder of MexicoEVData                 *)
(* (src/test.py: addEdgesToMunicipalitiesV2, identical to                  *)
(* src/rawDataProcessing/initialDataProcessing.py: addEdgesToMunicipalities)*)
(* together with the memoized distance function, the heapq operations the  *)
(* builder relies on, the JSON serializer and the loader.                  *)
(*                                                                         *)
(* Abstractions.                                                           *)
(*  - A Municipality object is identified by the key under which it is     *)
(*    stored in codeToMunicipality; its attributes (__dict__) are a        *)
(*    function from attribute names to values, so that deleting the        *)
(*    attribute "_neighbors" is a change of the function's domain.         *)
(*  - All municipalities lie on one meridian (lon = 0).  For such points   *)
(*    the haversine formula gives R * |lat2 - lat1|; lat is an integer     *)
(*    number of distance units and DistUnit units make one mile, so the    *)
(*    distance is |lat2 - lat1| units.  Floating point is replaced by      *)
(*    exact integer arithmetic.                                            *)
(*  - A municipality code is an integer sssnn whose leading digits stand   *)
(*    for the state part of the code.                                      *)
(***************************************************************************)
EXTENDS Integers, Sequences, FiniteSets, TLC

VARIABLES
  codeToMunicipality,  \* dict code -> Municipality object (its __dict__)
  order,               \* insertion order of the dict: codeToMunicipalityValues
  pc,                  \* position in the builder
  i,                   \* outer loop index (0-based)
  j,                   \* inner loop index / rank in the accept loop (0-based)
  closenessHeap,       \* the list used as a heap of (distance, muni2)
  cache,               \* lru_cache of getDistanceBetweenMunicipalities
  computeCount,        \* number of executions of the distance body per key
  file,                \* the JSON document written by json.dump (<<>> if none)
  loaded,              \* the mapping returned by the loader (<<>> if none)
  firstResult          \* edge sets of an earlier run of the program (<<>> if none)

vars == <<codeToMunicipality, order, pc, i, j, closenessHeap, cache,
          computeCount, file, loaded, firstResult>>

(***************************************************************************)
(* Program constants and bounds                                            *)
(***************************************************************************)
MAX_EDGES == 10
MAX_DISTANCE == 100

\* distance units per mile: MAX_DISTANCE * DistUnit is divisible by 2^j (j < 3)
\* and by 3^j (j < MAX_EDGES), so every gate threshold is a whole number.
DistUnit == 3 ^ 9

\* largest number of municipalities of the freely chosen inputs
MaxMunis == 3
\* number of municipalities of the clustered inputs: enough to fill every rank
\* of one scan and to leave one more candidate for a later scan
DenseMunis == MAX_EDGES + 2
\* latitudes (in miles) of the freely chosen inputs
SmallLatMiles == {0, 30, 50, 100, 130}
\* spacing (in units) of the clustered inputs
DenseScales == {1, 30, 1000, 30000}

(***************************************************************************)
(* Inputs                                                                  *)
(***************************************************************************)
CodeOf(k) == IF k % 3 = 0 THEN 9000 + k ELSE 1000 + k
IndexOf(code) == code % 1000
NameOf(code) == 50000 + code
StateOf(code) == code \div 1000

Perms(S) ==
  {s \in [1..Cardinality(S) -> S] : \A a \in S : \E n \in DOMAIN s : s[n] = a}

\* k written in binary and read in base 3: a set without three-term
\* arithmetic progressions, so no point is halfway between two others
RECURSIVE SpreadOf(_)
SpreadOf(k) == IF k = 0 THEN 0 ELSE 3 * SpreadOf(k \div 2) + (k % 2)

SmallInputs ==
  UNION {{[order |-> o, lat |-> l] :
            o \in Perms({CodeOf(k) : k \in 1..n}),
            l \in [{CodeOf(k) : k \in 1..n} -> {m * DistUnit : m \in SmallLatMiles}]}
         : n \in 0..MaxMunis}

DenseInputs ==
  {[order |-> [k \in 1..DenseMunis |-> CodeOf(k)],
    lat |-> [c \in {CodeOf(k) : k \in 1..DenseMunis} |-> s * SpreadOf(IndexOf(c) - 1)]]
   : s \in DenseScales}

Inputs == SmallInputs \cup DenseInputs

(***************************************************************************)
(* Classes                                                                 *)
(***************************************************************************)
MunicipalityEdge(fromMuniCode, toMuniCode, distance) ==
  [fromMuniCode |-> fromMuniCode, toMuniCode |-> toMuniCode, distance |-> distance]

\* variant of Municipality.__init__ that fills _neighbors from fromMuniCode
MunicipalityNeighborsFromSource(name, state, code, lat, lon, hasSupercharger, edges) ==
  [name |-> name, state |-> state, code |-> code, lat |-> lat, lon |-> lon,
   hasSupercharger |-> hasSupercharger,
   _neighbors |-> IF edges # <<>>
                    THEN {edges[n]["fromMuniCode"] : n \in DOMAIN edges}
                    ELSE {},
   edges |-> IF edges # <<>>
               THEN [n \in DOMAIN edges |->
                       MunicipalityEdge(edges[n]["fromMuniCode"],
                                        edges[n]["toMuniCode"],
                                        edges[n]["distance"])]
               ELSE <<>>]

\* Municipality.__init__ ; edges is a sequence of dicts (<<>> for None)
Municipality(name, state, code, lat, lon, hasSupercharger, edges) ==
  [name |-> name, state |-> state, code |-> code, lat |-> lat, lon |-> lon,
   hasSupercharger |-> hasSupercharger,
   _neighbors |-> IF edges # <<>>
                    THEN {edges[n]["toMuniCode"] : n \in DOMAIN edges}
                    ELSE {},
   edges |-> IF edges # <<>>
               THEN [n \in DOMAIN edges |->
                       MunicipalityEdge(edges[n]["fromMuniCode"],
                                        edges[n]["toMuniCode"],
                                        edges[n]["distance"])]
               ELSE <<>>]

\* the mapping read by getMunicipalityCodeToSuperchargerStatus: every key is
\* the code of its entity and no entity has edges yet
getMunicipalityCodeToSuperchargerStatus(inp) ==
  [c \in DOMAIN inp.lat |->
     Municipality(NameOf(c), StateOf(c), c, inp.lat[c], 0, IndexOf(c) % 2 = 0, <<>>)]

(***************************************************************************)
(* Distance function                                                       *)
(***************************************************************************)
Abs(x) == IF x < 0 THEN -x ELSE x

\* the body of getDistanceBetweenMunicipalities for two points of a meridian
Haversine(muni1, muni2) == Abs(muni2.lat - muni1.lat)

\* lru_cache: the key is the tuple of the positional arguments, in order;
\* a Municipality hashes and compares by identity
CacheKey(k1, k2) == <<k1, k2>>
CacheHit(k1, k2) == CacheKey(k1, k2) \in DOMAIN cache

getDistanceBetweenMunicipalities(k1, k2) ==
  IF CacheHit(k1, k2)
    THEN cache[CacheKey(k1, k2)]
    ELSE Haversine(codeToMunicipality[k1], codeToMunicipality[k2])

CacheAfter(k1, k2) ==
  IF CacheHit(k1, k2)
    THEN cache
    ELSE (CacheKey(k1, k2) :> Haversine(codeToMunicipality[k1], codeToMunicipality[k2]))
         @@ cache

CountAfter(k1, k2) ==
  IF CacheHit(k1, k2)
    THEN computeCount
    ELSE (CacheKey(k1, k2) :>
            (IF CacheKey(k1, k2) \in DOMAIN computeCount
               THEN computeCount[CacheKey(k1, k2)] + 1 ELSE 1))
         @@ computeCount

(***************************************************************************)
(* heapq on a list of tuples (distance, muni2)                             *)
(***************************************************************************)
\* (d1, m1) < (d2, m2): the distances decide unless they are equal; then the
\* Municipality objects are compared, and Municipality defines no ordering:
\* "<" between two distinct objects raises TypeError
TupleLtRaises(x, y) == x[1] = y[1] /\ x[2] # y[2]
TupleLt(x, y) == x[1] < y[1]

\* heapq._siftdown(heap, startpos, pos) with newitem = heap[pos] (0-based
\* positions); the result is the heap and whether no comparison raised
RECURSIVE siftdown(_, _, _, _)
siftdown(heap, startpos, pos, newitem) ==
  IF pos > startpos
    THEN LET parentpos == (pos - 1) \div 2
             parent == heap[parentpos + 1]
         IN  IF TupleLtRaises(newitem, parent)
               THEN [h |-> heap, ok |-> FALSE]
               ELSE IF TupleLt(newitem, parent)
                      THEN siftdown([heap EXCEPT ![pos + 1] = parent],
                                    startpos, parentpos, newitem)
                      ELSE [h |-> [heap EXCEPT ![pos + 1] = newitem], ok |-> TRUE]
    ELSE [h |-> [heap EXCEPT ![pos + 1] = newitem], ok |-> TRUE]

\* heapq._siftup(heap, pos): bubble the smaller child up until a leaf is hit,
\* then sift newitem down from there
RECURSIVE siftup(_, _, _, _)
siftup(heap, startpos, pos, newitem) ==
  LET endpos == Len(heap)
      childpos == 2 * pos + 1
      rightpos == childpos + 1
  IN  IF childpos < endpos
        THEN IF rightpos < endpos /\ TupleLtRaises(heap[childpos + 1], heap[rightpos + 1])
               THEN [h |-> heap, ok |-> FALSE]
               ELSE LET c == IF rightpos < endpos
                                  /\ ~TupleLt(heap[childpos + 1], heap[rightpos + 1])
                               THEN rightpos ELSE childpos
                    IN  siftup([heap EXCEPT ![pos + 1] = heap[c + 1]],
                               startpos, c, newitem)
        ELSE siftdown(heap, startpos, pos, newitem)

\* heapq.heappush(heap, item)
heappush(heap, item) == siftdown(Append(heap, item), 0, Len(heap), item)

\* heapq.heappop(heap) of a non-empty heap: the popped item, the heap left
\* and whether no comparison raised
heappop(heap) ==
  LET lastelt == heap[Len(heap)]
      rest == SubSeq(heap, 1, Len(heap) - 1)
  IN  IF rest # <<>>
        THEN LET r == siftup([rest EXCEPT ![1] = lastelt], 0, 0, lastelt)
             IN  [item |-> heap[1], h |-> r.h, ok |-> r.ok]
        ELSE [item |-> lastelt, h |-> rest, ok |-> TRUE]

(***************************************************************************)
(* The builder: addEdgesToMunicipalitiesV2                                 *)
(***************************************************************************)
codeToMunicipalityValues == [n \in DOMAIN order |-> order[n]]
NumValues == Len(codeToMunicipalityValues)
muni1 == codeToMunicipality[codeToMunicipalityValues[i + 1]]
Candidate == codeToMunicipality[codeToMunicipalityValues[j + 1]]

\* variant of the gate that breaks on a distance equal to the threshold
GateBreaksOnEqual(r, distance) ==
  \/ r < 3 /\ distance >= (MAX_DISTANCE * DistUnit) \div (2 ^ r)
  \/ r >= 3 /\ distance >= (MAX_DISTANCE * DistUnit) \div (3 ^ r)

\* variant of the gate that keeps halving from rank 3 on
GateBreaksHalving(r, distance) ==
  distance > (MAX_DISTANCE * DistUnit) \div (2 ^ r)

\* the break condition of the accept loop for rank r.  distance is a whole
\* number of units, so distance > T / n holds exactly when distance exceeds
\* the integer part of T / n.
GateBreaks(r, distance) ==
  \/ r < 3 /\ distance > (MAX_DISTANCE * DistUnit) \div (2 ^ r)
  \/ r >= 3 /\ distance > (MAX_DISTANCE * DistUnit) \div (3 ^ r)

\* variant of the forward edge that refers to muni2 by its name
edgeToMuni2ByName(m1, m2, distance) == MunicipalityEdge(m1.code, m2.name, distance)

edgeToMuni2(m1, m2, distance) == MunicipalityEdge(m1.code, m2.code, distance)
edgeToMuni1(m1, m2, distance) == MunicipalityEdge(m2.code, m1.code, distance)

\* variant that records the edge at muni1 only
AddEdgesOneWay(c2m, k1, k2, distance) ==
  LET m1 == c2m[k1]
      m2 == c2m[k2]
  IN  [c2m EXCEPT
         ![k1] = [m1 EXCEPT !["edges"] = Append(@, MunicipalityEdge(m1.code, m2.code, distance)),
                            !["_neighbors"] = @ \cup {m2.code}],
         ![k2] = [m2 EXCEPT !["_neighbors"] = @ \cup {m1.code}]]

\* lines 375-381: both edges are appended and both skip sets extended
AddEdges(c2m, k1, k2, distance) ==
  LET m1 == c2m[k1]
      m2 == c2m[k2]
  IN  [c2m EXCEPT
         ![k1] = [m1 EXCEPT !["edges"] = Append(@, edgeToMuni2(m1, m2, distance)),
                            !["_neighbors"] = @ \cup {m2.code}],
         ![k2] = [m2 EXCEPT !["edges"] = Append(@, edgeToMuni1(m1, m2, distance)),
                            !["_neighbors"] = @ \cup {m1.code}]]

\* variant without the skip of recorded neighbors
AlreadyNeighborIgnored(m1, m2) == FALSE

\* line 364: muni2 is skipped when its code is in muni1._neighbors
AlreadyNeighbor(m1, m2) == m2.code \in m1["_neighbors"]

Start(inp) ==
  /\ codeToMunicipality = getMunicipalityCodeToSuperchargerStatus(inp)
  /\ order = inp.order
  /\ pc = "outer"
  /\ i = 0
  /\ j = 0
  /\ closenessHeap = <<>>
  /\ cache = <<>>
  /\ computeCount = <<>>
  /\ file = <<>>
  /\ loaded = <<>>
  /\ firstResult = <<>>

Init == \E inp \in Inputs : Start(inp)

\* line 357-359: the next municipality is taken, or the loop is over
OuterLoop ==
  /\ pc = "outer"
  /\ IF i < NumValues
       THEN /\ pc' = "scan"
            /\ closenessHeap' = <<>>
            /\ j' = 0
       ELSE /\ pc' = "save"
            /\ UNCHANGED <<closenessHeap, j>>
  /\ UNCHANGED <<codeToMunicipality, order, i, cache, computeCount, file,
                 loaded, firstResult>>

\* lines 362-364: the municipality itself and its recorded neighbors are skipped
ScanSkip ==
  /\ pc = "scan"
  /\ j < NumValues
  /\ i = j \/ AlreadyNeighbor(muni1, Candidate)
  /\ j' = j + 1
  /\ UNCHANGED <<codeToMunicipality, order, pc, i, closenessHeap, cache,
                 computeCount, file, loaded, firstResult>>

\* lines 365-366: the distance is looked up or computed and the pair pushed;
\* a TypeError raised by a comparison ends the program
ScanPush ==
  /\ pc = "scan"
  /\ j < NumValues
  /\ ~(i = j \/ AlreadyNeighbor(muni1, Candidate))
  /\ LET k1 == codeToMunicipalityValues[i + 1]
         k2 == codeToMunicipalityValues[j + 1]
         distance == getDistanceBetweenMunicipalities(k1, k2)
         r == heappush(closenessHeap, <<distance, k2>>)
     IN  /\ cache' = CacheAfter(k1, k2)
         /\ computeCount' = CountAfter(k1, k2)
         /\ closenessHeap' = r.h
         /\ IF r.ok
              THEN /\ j' = j + 1
                   /\ pc' = pc
              ELSE /\ j' = j
                   /\ pc' = "error"
  /\ UNCHANGED <<codeToMunicipality, order, i, file, loaded, firstResult>>

\* the inner loop is over: the accept loop starts at rank 0
ScanEnd ==
  /\ pc = "scan"
  /\ j = NumValues
  /\ pc' = "accept"
  /\ j' = 0
  /\ UNCHANGED <<codeToMunicipality, order, i, closenessHeap, cache,
                 computeCount, file, loaded, firstResult>>

\* lines 369-370: the ranks are used up or the heap is empty
AcceptEnd ==
  /\ pc = "accept"
  /\ j >= MAX_EDGES \/ closenessHeap = <<>>
  /\ pc' = "outer"
  /\ i' = i + 1
  /\ UNCHANGED <<codeToMunicipality, order, j, closenessHeap, cache,
                 computeCount, file, loaded, firstResult>>

\* lines 371-381: the closest candidate is popped; it is joined to muni1 in
\* both directions unless the gate of rank j breaks the loop
AcceptPop ==
  /\ pc = "accept"
  /\ j < MAX_EDGES
  /\ closenessHeap # <<>>
  /\ LET r == heappop(closenessHeap)
         distance == r.item[1]
         k2 == r.item[2]
     IN  /\ closenessHeap' = r.h
         /\ IF ~r.ok
              THEN /\ pc' = "error"
                   /\ UNCHANGED <<codeToMunicipality, i, j>>
              ELSE IF GateBreaks(j, distance)
                     THEN /\ pc' = "outer"
                          /\ i' = i + 1
                          /\ UNCHANGED <<codeToMunicipality, j>>
                     ELSE /\ codeToMunicipality' =
                               AddEdges(codeToMunicipality,
                                        codeToMunicipalityValues[i + 1], k2, distance)
                          /\ j' = j + 1
                          /\ UNCHANGED <<pc, i>>
  /\ UNCHANGED <<order, cache, computeCount, file, loaded, firstResult>>

(***************************************************************************)
(* Serializer and loader                                                   *)
(***************************************************************************)
HasNeighborsAttr(obj) == "_neighbors" \in DOMAIN obj

\* municipalityDictSerializer on a Municipality: the object's own __dict__ is
\* returned after its entry '_neighbors' has been deleted
municipalityDictSerializer(obj) ==
  [f \in DOMAIN obj \ {"_neighbors"} |-> obj[f]]

\* json.dump(codeToMunicipality, file, default=municipalityDictSerializer):
\* every Municipality becomes the JSON object of its remaining attributes and
\* every MunicipalityEdge the JSON object of its three attributes
JsonDump(c2m) ==
  [k \in DOMAIN c2m |->
     LET d == municipalityDictSerializer(c2m[k])
     IN  [d EXCEPT !["edges"] =
            [n \in DOMAIN d["edges"] |->
               [fromMuniCode |-> d["edges"][n].fromMuniCode,
                toMuniCode |-> d["edges"][n].toMuniCode,
                distance |-> d["edges"][n].distance]]]]

\* Municipality(**value) for a JSON object read back from the file
MunicipalityFromDict(value) ==
  Municipality(value["name"], value["state"], value["code"], value["lat"],
               value["lon"], value["hasSupercharger"], value["edges"])

\* lines 383-387: the mapping is written and returned; serializing deletes
\* '_neighbors' from every object, and raises KeyError where it is missing
Save ==
  /\ pc = "save"
  /\ IF \A k \in DOMAIN codeToMunicipality : HasNeighborsAttr(codeToMunicipality[k])
       THEN /\ file' = <<JsonDump(codeToMunicipality)>>
            /\ codeToMunicipality' =
                 [k \in DOMAIN codeToMunicipality |->
                    municipalityDictSerializer(codeToMunicipality[k])]
            /\ pc' = "done"
       ELSE /\ pc' = "error"
            /\ UNCHANGED <<file, codeToMunicipality>>
  /\ UNCHANGED <<order, i, j, closenessHeap, cache, computeCount, loaded,
                 firstResult>>

\* loadMunicipalitiesWithEdgesV2
Load ==
  /\ pc = "done"
  /\ file # <<>>
  /\ loaded = <<>>
  /\ loaded' = <<[code \in DOMAIN file[1] |-> MunicipalityFromDict(file[1][code])]>>
  /\ UNCHANGED <<codeToMunicipality, order, pc, i, j, closenessHeap, cache,
                 computeCount, file, firstResult>>

\* saveMunicipalitiesWithEdges(codeToMuni) on the mapping the builder returned:
\* json.dump serializes every Municipality again (into another file) and
\* raises KeyError at the first object without '_neighbors'
SaveAgain ==
  /\ pc = "done"
  /\ IF \A k \in DOMAIN codeToMunicipality : HasNeighborsAttr(codeToMunicipality[k])
       THEN /\ codeToMunicipality' =
                 [k \in DOMAIN codeToMunicipality |->
                    municipalityDictSerializer(codeToMunicipality[k])]
            /\ pc' = pc
       ELSE /\ pc' = "keyerror"
            /\ UNCHANGED codeToMunicipality
  /\ UNCHANGED <<order, i, j, closenessHeap, cache, computeCount, file, loaded,
                 firstResult>>

Next ==
  \/ OuterLoop
  \/ ScanSkip
  \/ ScanPush
  \/ ScanEnd
  \/ AcceptEnd
  \/ AcceptPop
  \/ Save
  \/ Load
  \/ SaveAgain

Spec == Init /\ [][Next]_vars

(***************************************************************************)
(* A second run of the program on the same municipalities, stored in the   *)
(* input file in another order                                             *)
(***************************************************************************)
EdgeSets(c2m) ==
  [k \in DOMAIN c2m |-> {c2m[k]["edges"][n] : n \in DOMAIN c2m[k]["edges"]}]

\* the program is started again (the __main__ block): a new process with an
\* empty cache reads the same municipalities in the order newOrder; the edge
\* sets the first run returned are remembered for comparison
Rerun ==
  /\ pc = "done"
  /\ firstResult = <<>>
  /\ \E newOrder \in Perms(DOMAIN codeToMunicipality) :
       /\ firstResult' = <<[order |-> order, edges |-> EdgeSets(codeToMunicipality)]>>
       /\ order' = newOrder
       /\ codeToMunicipality' =
            [c \in DOMAIN codeToMunicipality |->
               Municipality(codeToMunicipality[c]["name"], codeToMunicipality[c]["state"],
                            codeToMunicipality[c]["code"], codeToMunicipality[c]["lat"],
                            codeToMunicipality[c]["lon"],
                            codeToMunicipality[c]["hasSupercharger"], <<>>)]
  /\ pc' = "outer"
  /\ i' = 0
  /\ j' = 0
  /\ closenessHeap' = <<>>
  /\ cache' = <<>>
  /\ computeCount' = <<>>
  /\ loaded' = <<>>
  /\ UNCHANGED file

\* the first run reads the municipalities in increasing order of their codes
AscendingInputs ==
  {inp \in SmallInputs :
     \A n \in DOMAIN inp.order : \A m \in DOMAIN inp.order :
       n < m => inp.order[n] < inp.order[m]}

InitOrder == \E inp \in AscendingInputs : Start(inp)

NextOrder == Next \/ Rerun

SpecOrder == InitOrder /\ [][NextOrder]_vars

(***************************************************************************)
(* The superseded edge list: Municipality.addEdge                          *)
(***************************************************************************)
\* MunicipalityEdge.__lt__: edges are ordered by distance, so heapq never
\* raises on a list of edges
EdgeLt(x, y) == x.distance < y.distance

\* heapq._siftdown on a list of MunicipalityEdge
RECURSIVE siftdownEdges(_, _, _, _)
siftdownEdges(heap, startpos, pos, newitem) ==
  IF pos > startpos
    THEN LET parentpos == (pos - 1) \div 2
             parent == heap[parentpos + 1]
         IN  IF EdgeLt(newitem, parent)
               THEN siftdownEdges([heap EXCEPT ![pos + 1] = parent],
                                  startpos, parentpos, newitem)
               ELSE [heap EXCEPT ![pos + 1] = newitem]
    ELSE [heap EXCEPT ![pos + 1] = newitem]

\* heapq._siftup on a list of MunicipalityEdge
RECURSIVE siftupEdges(_, _, _, _)
siftupEdges(heap, startpos, pos, newitem) ==
  LET endpos == Len(heap)
      childpos == 2 * pos + 1
      rightpos == childpos + 1
  IN  IF childpos < endpos
        THEN LET c == IF rightpos < endpos
                           /\ ~EdgeLt(heap[childpos + 1], heap[rightpos + 1])
                        THEN rightpos ELSE childpos
             IN  siftupEdges([heap EXCEPT ![pos + 1] = heap[c + 1]],
                             startpos, c, newitem)
        ELSE siftdownEdges(heap, startpos, pos, newitem)

\* heapq.heappush(self.edges, edge)
heappushEdges(heap, item) == siftdownEdges(Append(heap, item), 0, Len(heap), item)

\* the list left by heapq.heappop(self.edges) on a non-empty list
heappopEdges(heap) ==
  LET lastelt == heap[Len(heap)]
      rest == SubSeq(heap, 1, Len(heap) - 1)
  IN  IF rest # <<>>
        THEN siftupEdges([rest EXCEPT ![1] = lastelt], 0, 0, lastelt)
        ELSE rest

\* code.startswith('09')
StartsWith09(code) == code \div 1000 = 9

\* line 54
isValidDistance(edge) ==
  \/ edge.distance < MAX_DISTANCE * DistUnit
  \/ /\ StartsWith09(edge.fromMuniCode) \/ StartsWith09(edge.toMuniCode)
     /\ edge.distance < 2 * MAX_DISTANCE * DistUnit

\* variant of the admission test that also admits a distance equal to the
\* smallest retained one
AdmitsOnEqual(self, edge) ==
  /\ isValidDistance(edge)
  /\ \/ Len(self["edges"]) < MAX_EDGES
     \/ edge.distance >= self["edges"][1].distance

\* line 55: self.edges[0] is read only when the list is full
Admits(self, edge) ==
  /\ isValidDistance(edge)
  /\ \/ Len(self["edges"]) < MAX_EDGES
     \/ edge.distance > self["edges"][1].distance

\* Municipality.addEdge: the object after the call
addEdge(self, edge) ==
  IF Admits(self, edge)
    THEN LET pushed == heappushEdges(self["edges"], edge)
         IN  [self EXCEPT !["edges"] =
                IF Len(pushed) > MAX_EDGES THEN heappopEdges(pushed) ELSE pushed]
    ELSE self

\* the edges passed to addEdge (distances in miles): within MAX_DISTANCE,
\* equal to it, beyond it with and without a code of state 09, and equal to
\* twice MAX_DISTANCE
EdgeInputs ==
  {MunicipalityEdge(e[1], e[2], e[3] * DistUnit) :
     e \in {<<1001, 1002, 30>>, <<1001, 1002, 50>>, <<1001, 1002, 100>>,
            <<9003, 1002, 100>>, <<1001, 9003, 130>>, <<1001, 9003, 200>>}}

\* one municipality, loaded without edges, on which addEdge is called
StartAddEdge(inp) ==
  /\ codeToMunicipality = getMunicipalityCodeToSuperchargerStatus(inp)
  /\ order = inp.order
  /\ pc = "addEdge"
  /\ i = 0
  /\ j = 0
  /\ closenessHeap = <<>>
  /\ cache = <<>>
  /\ computeCount = <<>>
  /\ file = <<>>
  /\ loaded = <<>>
  /\ firstResult = <<>>

InitAddEdge == \E inp \in {x \in SmallInputs : Len(x.order) = 1} : StartAddEdge(inp)

\* a call self.addEdge(edge)
AddEdgeCall ==
  /\ pc = "addEdge"
  /\ \E self \in DOMAIN codeToMunicipality : \E edge \in EdgeInputs :
       codeToMunicipality' =
         [codeToMunicipality EXCEPT ![self] = addEdge(@, edge)]
  /\ UNCHANGED <<order, pc, i, j, closenessHeap, cache, computeCount, file,
                 loaded, firstResult>>

NextAddEdge == AddEdgeCall

SpecAddEdge == InitAddEdge /\ [][NextAddEdge]_vars

(***************************************************************************)
(* Properties                                                              *)
(***************************************************************************)
Keys == DOMAIN codeToMunicipality
EdgesOf(k) == codeToMunicipality[k]["edges"]
EdgeSetOf(k) == {EdgesOf(k)[n] : n \in DOMAIN EdgesOf(k)}

\* C1: in every state of the builder (the two appends of one accepted pair
\* are one step), every edge (A,B,d) of A's adjacency list has a matching
\* edge (B,A,d) with the same distance in B's adjacency list.
MutualEdges ==
  \A a \in Keys : \A e \in EdgeSetOf(a) :
    /\ e.fromMuniCode = codeToMunicipality[a]["code"]
    /\ e.toMuniCode \in Keys
    /\ MunicipalityEdge(e.toMuniCode, e.fromMuniCode, e.distance)
         \in EdgeSetOf(e.toMuniCode)

\* a state between two accepted edges of one scan
MutualEdgesWitness ==
  /\ pc = "accept"
  /\ j >= 1
  /\ closenessHeap # <<>>
  /\ Len(muni1["edges"]) >= 1

\* C2 (as claimed): after the builder has run, every adjacency list has at
\* most MAX_EDGES entries.
DegreeBound ==
  pc = "done" => \A a \in Keys : Len(EdgesOf(a)) <= MAX_EDGES

\* distance separating two municipalities, from their coordinates
Apart(a, b) == Abs(codeToMunicipality[a]["lat"] - codeToMunicipality[b]["lat"])
Others(a) == Keys \ {a}
IsNearest(a, b) == b \in Others(a) /\ \A c \in Others(a) : Apart(a, b) <= Apart(a, c)
JoinedAt(a, d) == \E e \in EdgeSetOf(a) : e.distance = d

\* C3 (as claimed): a second run over the same municipalities visited in
\* another order returns the same set of edges for every municipality.
OrderIndependent ==
  (pc = "done" /\ firstResult # <<>>) => EdgeSets(codeToMunicipality) = firstResult[1].edges

\* C3 (amended): the order of the visits can change the result; two runs in
\* the same order return the same edges, and in every order each
\* municipality ends joined to a nearest other municipality when that one is
\* within MAX_DISTANCE, while no pair farther apart than MAX_DISTANCE is joined.
OrderInsensitivePart ==
  pc = "done" =>
    /\ (firstResult # <<>> /\ firstResult[1].order = order)
         => EdgeSets(codeToMunicipality) = firstResult[1].edges
    /\ \A a \in Keys :
         /\ \A b \in Others(a) :
              (IsNearest(a, b) /\ Apart(a, b) <= MAX_DISTANCE * DistUnit)
                => JoinedAt(a, Apart(a, b))
         /\ \A e \in EdgeSetOf(a) :
              /\ e.distance = Apart(a, e.toMuniCode)
              /\ e.distance <= MAX_DISTANCE * DistUnit

\* a second run in another order has finished with other edges than the first,
\* a municipality being joined to its nearest one more than MAX_DISTANCE / 2 away
OrderWitness ==
  /\ pc = "done"
  /\ firstResult # <<>>
  /\ firstResult[1].order # order
  /\ EdgeSets(codeToMunicipality) # firstResult[1].edges
  /\ \E a \in Keys : \E b \in Others(a) :
       /\ IsNearest(a, b)
       /\ 2 * Apart(a, b) > MAX_DISTANCE * DistUnit
       /\ JoinedAt(a, Apart(a, b))

\* the distances of an adjacency list in increasing order
RECURSIVE SortedDistances(_)
SortedDistances(edges) ==
  IF edges = <<>>
    THEN <<>>
    ELSE LET n == CHOOSE n \in DOMAIN edges :
                    \A m \in DOMAIN edges : edges[n].distance <= edges[m].distance
             rest == [m \in 1..(Len(edges) - 1) |->
                        IF m < n THEN edges[m] ELSE edges[m + 1]]
         IN  <<edges[n].distance>> \o SortedDistances(rest)

\* the gate of rank r: MAX_DISTANCE / 2^r below rank 3, MAX_DISTANCE / 3^r
\* from rank 3 on (distances are whole numbers of units)
GateDivisor(r) == IF r < 3 THEN 2 ^ r ELSE 3 ^ r
WithinGate(r, distance) == distance <= (MAX_DISTANCE * DistUnit) \div GateDivisor(r)

\* C4 (as claimed): after the builder has run, the entry at rank r of every
\* adjacency list ranked by increasing distance is within the gate of rank r.
RankedWithinGate ==
  pc = "done" =>
    \A a \in Keys :
      LET ranked == SortedDistances(EdgesOf(a))
      IN  \A n \in DOMAIN ranked : WithinGate(n - 1, ranked[n])

\* C5: no adjacency list holds two entries with the same neighbor code and
\* none holds the code of its own municipality.
NoDuplicateNoSelf ==
  \A a \in Keys :
    /\ \A n \in DOMAIN EdgesOf(a) : \A m \in DOMAIN EdgesOf(a) :
         EdgesOf(a)[n].toMuniCode = EdgesOf(a)[m].toMuniCode => n = m
    /\ \A n \in DOMAIN EdgesOf(a) :
         EdgesOf(a)[n].toMuniCode # codeToMunicipality[a]["code"]

\* a municipality joined during an earlier scan of a neighbor is being
\* scanned itself and has accepted a further neighbor
NoDuplicateWitness ==
  /\ pc = "accept"
  /\ j >= 1
  /\ Len(muni1["edges"]) > j
  /\ \E n \in 1..(i + 1) : \E e \in EdgeSetOf(codeToMunicipalityValues[i + 1]) :
       n < i + 1 /\ e.toMuniCode = codeToMunicipalityValues[n]

\* C6: in the mapping the builder returns, every toMuniCode of every
\* adjacency list is a key of the mapping.
NoDanglingReference ==
  pc = "done" =>
    \A a \in Keys : \A e \in EdgeSetOf(a) : e.toMuniCode \in Keys

NoDanglingWitness ==
  /\ pc = "done"
  /\ \E a \in Keys : Len(EdgesOf(a)) >= 2

\* C7: the mapping loaded from the file written by the builder has, for every
\* municipality, the same adjacency list and the same identifying fields as
\* the built mapping, and its _neighbors is the set of toMuniCode of that list.
RoundTrip ==
  loaded # <<>> =>
    /\ DOMAIN loaded[1] = Keys
    /\ \A a \in Keys :
         /\ loaded[1][a]["edges"] = EdgesOf(a)
         /\ \A f \in {"name", "state", "code", "lat", "lon", "hasSupercharger"} :
              loaded[1][a][f] = codeToMunicipality[a][f]
         /\ loaded[1][a]["_neighbors"] = {e.toMuniCode : e \in EdgeSetOf(a)}

RoundTripWitness ==
  /\ loaded # <<>>
  /\ \E a \in Keys : Len(EdgesOf(a)) >= 2
  /\ \E a \in Keys : loaded[1][a]["_neighbors"] # {}

\* the scan of one municipality: the candidates and what is left of them
CandidatesOf(a) ==
  {b \in Others(a) : codeToMunicipality[b]["code"] \notin codeToMunicipality[a]["_neighbors"]}
HeapItems == {closenessHeap[n] : n \in DOMAIN closenessHeap}
IsClosestLeft(item) == item \in HeapItems /\ \A other \in HeapItems : item[1] <= other[1]

\* C8: when the scan of A has gathered its candidates, they are exactly the
\* other municipalities not recorded as neighbors of A, each with its
\* distance to A; then at each rank j the closest candidate left is joined to
\* A if and only if j < MAX_EDGES, a candidate is left and its distance is at
\* most the gate of rank j (equality included); otherwise nothing more is
\* joined for A.  Steps in which a comparison raises are left aside.
GatedAcceptance ==
  [][/\ (pc = "scan" /\ pc' = "accept") =>
          /\ j' = 0
          /\ Len(closenessHeap') = Cardinality(CandidatesOf(codeToMunicipalityValues[i + 1]))
          /\ {<<Apart(codeToMunicipalityValues[i + 1], b), b>> :
                b \in CandidatesOf(codeToMunicipalityValues[i + 1])}
               = {closenessHeap'[n] : n \in DOMAIN closenessHeap'}
     /\ (pc = "accept" /\ pc' # "error") =>
          LET a == codeToMunicipalityValues[i + 1]
              passes == /\ j < MAX_EDGES
                        /\ HeapItems # {}
                        /\ \E item \in HeapItems :
                             IsClosestLeft(item) /\ WithinGate(j, item[1])
          IN  IF passes
                THEN /\ pc' = "accept"
                     /\ i' = i
                     /\ j' = j + 1
                     /\ \E item \in HeapItems :
                          /\ IsClosestLeft(item)
                          /\ codeToMunicipality'[a]["edges"] =
                               Append(EdgesOf(a),
                                      MunicipalityEdge(a, item[2], item[1]))
                          /\ {closenessHeap'[n] : n \in DOMAIN closenessHeap'}
                               = HeapItems \ {item}
                          /\ Len(closenessHeap') = Len(closenessHeap) - 1
                ELSE /\ pc' = "outer"
                     /\ i' = i + 1
                     /\ codeToMunicipality' = codeToMunicipality
    ]_vars

\* a candidate has been joined at a distance equal to the gate of its rank
\* and the closest candidate left is beyond the gate of the next rank
GatedAcceptanceWitness ==
  /\ pc = "accept"
  /\ j >= 1
  /\ muni1["edges"][Len(muni1["edges"])].distance
       = (MAX_DISTANCE * DistUnit) \div GateDivisor(j - 1)
  /\ closenessHeap # <<>>
  /\ \A item \in HeapItems : ~WithinGate(j, item[1])

\* C9 (as claimed): closenessHeap never holds more than MAX_EDGES entries.
HeapBounded == Len(closenessHeap) <= MAX_EDGES

\* number of executions of the distance body for the arguments (a, b)
Computations(a, b) ==
  IF CacheKey(a, b) \in DOMAIN computeCount THEN computeCount[CacheKey(a, b)] ELSE 0

\* C10 (as claimed): the distance of an unordered pair of municipalities is
\* computed at most once, whichever way round the arguments are passed.
UnorderedPairComputedOnce ==
  \A a \in Keys : \A b \in Keys : Computations(a, b) + Computations(b, a) <= 1

\* the edge list as a multiset, and its smallest distance
CountIn(edges, x) == Cardinality({n \in DOMAIN edges : edges[n] = x})
IsSmallestOf(edges, x) ==
  /\ \E n \in DOMAIN edges : edges[n] = x
  /\ \A n \in DOMAIN edges : x.distance <= edges[n].distance
One(b) == IF b THEN 1 ELSE 0

\* C11: a call of addEdge on a list built by addEdge from empty changes the
\* list only by admitting the new edge, and only if the edge is within the
\* distance limit (MAX_DISTANCE, or twice that when either code starts with
\* 09) and the list holds fewer than MAX_EDGES edges or the edge is strictly
\* farther than the smallest retained one; an admission into a full list
\* evicts a smallest retained edge, and the list never exceeds MAX_EDGES.
AddEdgeAdmission ==
  [][pc = "addEdge" =>
       \A self \in Keys :
         LET old == EdgesOf(self)
             new == codeToMunicipality'[self]["edges"]
         IN  /\ Len(new) <= MAX_EDGES
             /\ new # old =>
                  \E edge \in EdgeInputs :
                    /\ \/ edge.distance < MAX_DISTANCE * DistUnit
                       \/ /\ edge.distance < 2 * MAX_DISTANCE * DistUnit
                          /\ 9 \in {edge.fromMuniCode \div 1000, edge.toMuniCode \div 1000}
                    /\ \/ Len(old) < MAX_EDGES
                       \/ \E x \in EdgeInputs :
                            IsSmallestOf(old, x) /\ edge.distance > x.distance
                    /\ IF Len(old) < MAX_EDGES
                         THEN \A x \in EdgeInputs :
                                CountIn(new, x) = CountIn(old, x) + One(x = edge)
                         ELSE \E gone \in EdgeInputs :
                                /\ IsSmallestOf(old, gone)
                                /\ \A x \in EdgeInputs :
                                     CountIn(new, x) = CountIn(old, x) + One(x = edge)
                                                         - One(x = gone)
    ]_vars

\* a full list from which the closest inputs have been evicted
AddEdgeAdmissionWitness ==
  /\ pc = "addEdge"
  /\ \E self \in Keys :
       /\ Len(EdgesOf(self)) = MAX_EDGES
       /\ \A n \in DOMAIN EdgesOf(self) :
            EdgesOf(self)[n].distance > 50 * DistUnit
       /\ \E n \in DOMAIN EdgesOf(self) :
            EdgesOf(self)[n].distance = 130 * DistUnit

\* C12 (as claimed): the builder never stops on an error raised while the
\* heap orders its (distance, municipality) pairs, whatever the distances.
BuilderNeverRaises == pc # "error"

\* C13 (as claimed): serializing leaves every municipality unchanged: the
\* mapping the builder returned still has _neighbors and edges on every
\* object, and serializing it again raises nothing.
SerializerLeavesEntities ==
  /\ pc # "keyerror"
  /\ pc = "done" =>
       \A a \in Keys : {"_neighbors", "edges"} \subseteq DOMAIN codeToMunicipality[a]

====
